---- MODULE Spec2Model ----
(***************************************************************************)
(* A model of the ksuid package (src/ksuid.go): the 20-byte identifier,   *)
(* its accessors and constructors, Next/Prev, Compare/Sort/IsSorted, the   *)
(* text form, and the generator NewRandomWithTime with the shared random   *)
(* source, buffer and mutex.                                               *)
(*                                                                         *)
(* Representation.  A byte is a number in 0..255 and a []byte or a Go      *)
(* string is a sequence of bytes (a string's characters are their ASCII    *)
(* codes).  TLC's integers are 32-bit signed, so every Go integer wider    *)
(* than 31 bits (uint32, int64, uint64) is a big-endian sequence of 16-bit *)
(* limbs of its exact width: 2 limbs for uint32, 4 for int64 and uint64.   *)
(* Arithmetic on them wraps at that width, as Go's does.                   *)
(***************************************************************************)
EXTENDS Integers, Sequences, FiniteSets, TLC

\* ------------------------------------------------------------ constants

epochStamp == 1400000000
timestampLengthInBytes == 4
payloadLengthInBytes == 16
byteLength == timestampLengthInBytes + payloadLengthInBytes
stringEncodedLength == 27

Byte == 0..255
Rep(b, n) == [i \in 1..n |-> b]

\* The text alphabet in rank order, and the ASCII code of the digit of rank r.
base62Characters ==
  << "0","1","2","3","4","5","6","7","8","9",
     "A","B","C","D","E","F","G","H","I","J","K","L","M",
     "N","O","P","Q","R","S","T","U","V","W","X","Y","Z",
     "a","b","c","d","e","f","g","h","i","j","k","l","m",
     "n","o","p","q","r","s","t","u","v","w","x","y","z" >>

base62Digit(r) ==
  IF r < 10 THEN 48 + r ELSE IF r < 36 THEN 65 + (r - 10) ELSE 97 + (r - 36)

\* A Go string literal over the alphabet, as its bytes.
CharCode(c) == base62Digit((CHOOSE i \in 1..62 : base62Characters[i] = c) - 1)
Str(cs) == [i \in 1..Len(cs) |-> CharCode(cs[i])]

minStringEncoded == Rep(48, 27)
maxStringEncoded ==
  Str(<< "a","W","g","E","P","T","l","1","t","m","e","b","f","s",
         "Q","z","F","P","4","b","x","w","g","y","8","0","V" >>)

errNone == "nil"
errSize == "errSize"
errStrSize == "errStrSize"
errStrValue == "errStrValue"
errPayloadSize == "errPayloadSize"

Nil == Rep(0, 20)
Max == Rep(255, 20)

\* ------------------------------------------------- fixed-width integers

LimbBase == 256 * 256

\* A small natural number as a uint32 / a 64-bit word.
U32(n) == << n \div LimbBase, n % LimbBase >>
U64(n) == << 0, 0, n \div LimbBase, n % LimbBase >>
MaxUint64 == << 65535, 65535, 65535, 65535 >>

RECURSIVE CarryInto(_, _, _)
CarryInto(a, b, i) ==
  IF i = Len(a) THEN 0
  ELSE (a[i + 1] + b[i + 1] + CarryInto(a, b, i + 1)) \div LimbBase

\* a + b at the width of a, wrapping.
AddW(a, b) == [i \in 1..Len(a) |-> (a[i] + b[i] + CarryInto(a, b, i)) % LimbBase]

RECURSIVE BorrowInto(_, _, _)
BorrowInto(a, b, i) ==
  IF i = Len(a) THEN 0
  ELSE IF a[i + 1] - b[i + 1] - BorrowInto(a, b, i + 1) < 0 THEN 1 ELSE 0

\* a - b at the width of a, wrapping.
SubW(a, b) ==
  [i \in 1..Len(a) |-> (a[i] - b[i] - BorrowInto(a, b, i) + LimbBase) % LimbBase]

\* a < b as unsigned numbers of the same width.
LessW(a, b) ==
  \E i \in 1..Len(a) : a[i] < b[i] /\ \A j \in 1..(i - 1) : a[j] = b[j]

\* uint32(x) of a 64-bit word, and int64(x) of a uint32.
Trunc32(w) == SubSeq(w, 3, 4)
Ext64(v) == << 0, 0 >> \o v

\* binary.BigEndian.Uint32 / PutUint32 / Uint64.
Uint32(b) == << b[1] * 256 + b[2], b[3] * 256 + b[4] >>
PutUint32(v) == << v[1] \div 256, v[1] % 256, v[2] \div 256, v[2] % 256 >>
Uint64(b) == [i \in 1..4 |-> b[2 * i - 1] * 256 + b[2 * i]]
PutUint64(w) == [i \in 1..8 |-> IF i % 2 = 1 THEN w[(i + 1) \div 2] \div 256
                                             ELSE w[i \div 2] % 256]

\* ------------------------------------------------------------ accessors

Bytes(k) == k
Timestamp(k) == Uint32(SubSeq(k, 1, timestampLengthInBytes))
Payload(k) == SubSeq(k, timestampLengthInBytes + 1, byteLength)
IsNil(k) == k = Nil

\* A time.Time: its Unix seconds (an int64) and the nanoseconds within them.
Unix(t) == t.sec
\* A conversion that forgets the epoch: uint32(t.Unix()).
timeToUTCTimestampNoEpoch(t) == Trunc32(Unix(t))

timeToCorrectedUTCTimestamp(t) == Trunc32(SubW(Unix(t), U64(epochStamp)))
correctedUTCTimestampToTime(ts) ==
  [sec |-> AddW(Ext64(ts), U64(epochStamp)), nsec |-> 0]
Time(k) == correctedUTCTimestampToTime(Timestamp(k))

\* ---------------------------------------------------- 128-bit integers
\* The payload as an unsigned 128-bit integer of two 64-bit halves.

makeUint128(high, low) == [hi |-> high, lo |-> low]

uint128Payload(k) ==
  makeUint128(Uint64(SubSeq(Payload(k), 1, 8)), Uint64(SubSeq(Payload(k), 9, 16)))

\* The low halves are added first; the sum wrapped exactly when it is smaller
\* than an operand, and the carry then goes into the high half.
add128(x, y) ==
  LET low == AddW(x.lo, y.lo)
      carry == IF LessW(low, x.lo) THEN U64(1) ELSE U64(0)
  IN  makeUint128(AddW(AddW(x.hi, y.hi), carry), low)

\* The low halves are subtracted first; the difference wrapped exactly when
\* it is larger than the minuend, and the borrow then leaves the high half.
sub128(x, y) ==
  LET low == SubW(x.lo, y.lo)
      borrow == IF LessW(x.lo, low) THEN U64(1) ELSE U64(0)
  IN  makeUint128(SubW(SubW(x.hi, y.hi), borrow), low)

\* v.ksuid(t): the identifier of timestamp t and payload v.
ksuid(v, t) == PutUint32(t) \o PutUint64(v.hi) \o PutUint64(v.lo)

\* A Next that forgets the carry into the timestamp.
NextNoCarry(k) ==
  ksuid(add128(uint128Payload(k), makeUint128(U64(0), U64(1))), Timestamp(k))

Next(k) ==
  LET t == Timestamp(k)
      v == add128(uint128Payload(k), makeUint128(U64(0), U64(1)))
  IN  ksuid(v, IF v = makeUint128(U64(0), U64(0)) THEN AddW(t, U32(1)) ELSE t)

\* A Prev that forgets the borrow from the timestamp.
PrevNoBorrow(k) ==
  ksuid(sub128(uint128Payload(k), makeUint128(U64(0), U64(1))), Timestamp(k))

Prev(k) ==
  LET t == Timestamp(k)
      v == sub128(uint128Payload(k), makeUint128(U64(0), U64(1)))
  IN  ksuid(v, IF v = makeUint128(MaxUint64, MaxUint64) THEN SubW(t, U32(1)) ELSE t)

\* --------------------------------------------------------- base62 codec

\* The rank of a character in the alphabet, -1 for any other byte.
base62Value(c) ==
  IF c \in 48..57 THEN c - 48
  ELSE IF c \in 65..90 THEN 10 + (c - 65)
  ELSE IF c \in 97..122 THEN 36 + (c - 97)
  ELSE -1

\* One long division of a big-endian byte string by 62: the loop's state is
\* the index reached, the running remainder and the quotient so far.
RECURSIVE divmod62(_, _)
divmod62(src, st) ==
  IF st.i > Len(src) THEN st
  ELSE LET v == st.r * 256 + src[st.i]
       IN  divmod62(src, [i |-> st.i + 1, r |-> v % 62, q |-> Append(st.q, v \div 62)])

\* The n low base-62 digits of st.src, most significant first.
RECURSIVE encodeDigits(_)
encodeDigits(st) ==
  IF st.n = 0 THEN st.out
  ELSE LET d == divmod62(st.src, [i |-> 1, r |-> 0, q |-> << >>])
       IN  encodeDigits([src |-> d.q, n |-> st.n - 1,
                         out |-> << base62Digit(d.r) >> \o st.out])

fastEncodeBase62(src) ==
  encodeDigits([src |-> src, n |-> stringEncodedLength, out |-> << >>])
fastAppendEncodeBase62(dst, src) == dst \o fastEncodeBase62(src)

\* dst * 62 + c on a big-endian byte string, from its last byte to its
\* first; st.c ends as the carry out of the top byte.
RECURSIVE muladd62(_, _)
muladd62(dst, st) ==
  IF st.i = 0 THEN st
  ELSE LET v == dst[st.i] * 62 + st.c
       IN  muladd62(dst, [i |-> st.i - 1, c |-> v \div 256, b |-> << v % 256 >> \o st.b])

RECURSIVE decodeDigits(_, _)
decodeDigits(src, st) ==
  IF st.i > Len(src) THEN [dst |-> st.dst, ok |-> TRUE]
  ELSE IF base62Value(src[st.i]) < 0 THEN [dst |-> st.dst, ok |-> FALSE]
  ELSE LET m == muladd62(st.dst, [i |-> Len(st.dst), c |-> base62Value(src[st.i]),
                                  b |-> << >>])
       IN  IF m.c # 0 THEN [dst |-> st.dst, ok |-> FALSE]
           ELSE decodeDigits(src, [i |-> st.i + 1, dst |-> m.b])

\* The 20 bytes of a 27-character string, or a failure when a character is
\* outside the alphabet or the number does not fit 160 bits.
fastDecodeBase62(src) == decodeDigits(src, [i |-> 1, dst |-> Rep(0, byteLength)])

\* ------------------------------------------------------------- text form

KSUID_Append(k, b) == fastAppendEncodeBase62(b, k)
String(k) == KSUID_Append(k, << >>)

\* --------------------------------------------------------- constructors

\* A FromBytes that only rejects inputs that are too short.
FromBytesAtLeast(b) ==
  IF Len(b) < byteLength THEN [id |-> Nil, err |-> errSize]
  ELSE [id |-> SubSeq(b, 1, byteLength), err |-> errNone]

FromBytes(b) ==
  IF Len(b) # byteLength THEN [id |-> Nil, err |-> errSize]
  ELSE [id |-> b, err |-> errNone]

FromBytesOrNil(b) == IF FromBytes(b).err # errNone THEN Nil ELSE FromBytes(b).id

FromParts(t, payload) ==
  IF Len(payload) # payloadLengthInBytes THEN [id |-> Nil, err |-> errPayloadSize]
  ELSE [id |-> PutUint32(timeToCorrectedUTCTimestamp(t)) \o payload, err |-> errNone]

FromPartsOrNil(t, payload) ==
  IF FromParts(t, payload).err # errNone THEN Nil ELSE FromParts(t, payload).id

\* A Parse that drops the decoder's error.
ParseIgnoringDecodeError(s) ==
  IF Len(s) # stringEncodedLength THEN [id |-> Nil, err |-> errStrSize]
  ELSE FromBytes(fastDecodeBase62(s).dst)

Parse(s) ==
  IF Len(s) # stringEncodedLength THEN [id |-> Nil, err |-> errStrSize]
  ELSE LET d == fastDecodeBase62(s)
       IN  IF ~d.ok THEN [id |-> Nil, err |-> errStrValue]
           ELSE FromBytes(d.dst)

ParseOrNil(s) == IF Parse(s).err # errNone THEN Nil ELSE Parse(s).id

\* ------------------------------------------------------------- ordering

\* A Compare that reads the bytes as signed (int8).
CompareSigned(a, b) ==
  LET sg(x) == IF x >= 128 THEN x - 256 ELSE x
      d == { i \in 1..Len(a) : a[i] # b[i] }
  IN  IF d = {} THEN 0
      ELSE LET i == CHOOSE i \in d : \A j \in d : i <= j
           IN  IF sg(a[i]) < sg(b[i]) THEN -1 ELSE 1

\* bytes.Compare: the first differing byte decides; a proper prefix is less.
Compare(a, b) ==
  LET n == IF Len(a) < Len(b) THEN Len(a) ELSE Len(b)
      d == { i \in 1..n : a[i] # b[i] }
  IN  IF d # {}
        THEN LET i == CHOOSE i \in d : \A j \in d : i <= j
             IN  IF a[i] < b[i] THEN -1 ELSE 1
      ELSE IF Len(a) < Len(b) THEN -1
      ELSE IF Len(a) > Len(b) THEN 1
      ELSE 0

IsSorted(ids) == \A i \in 2..Len(ids) : ~(Compare(ids[i - 1], ids[i]) > 0)

\* Slices are indexed from 0 as in the source.
At(a, i) == a[i + 1]
Swap(a, i, j) == [a EXCEPT ![i + 1] = a[j + 1], ![j + 1] = a[i + 1]]

\* The partition loop of quickSort: the loop's state is the slice a and the
\* indices i and j.
RECURSIVE partition(_, _, _)
partition(st, pivot, hi) ==
  IF ~(st.j < hi) THEN st
  ELSE IF Compare(At(st.a, st.j), pivot) < 0
         THEN partition([a |-> Swap(st.a, st.i + 1, st.j), i |-> st.i + 1, j |-> st.j + 1],
                        pivot, hi)
       ELSE partition([a |-> st.a, i |-> st.i, j |-> st.j + 1], pivot, hi)

\* A quickSort that never sorts the part right of the pivot.
RECURSIVE quickSortLeftOnly(_, _, _)
quickSortLeftOnly(a, lo, hi) ==
  IF lo < hi
    THEN LET p == partition([a |-> a, i |-> lo - 1, j |-> lo], At(a, hi), hi)
             i == p.i + 1
         IN  quickSortLeftOnly(Swap(p.a, i, hi), lo, i - 1)
  ELSE a

RECURSIVE quickSort(_, _, _)
quickSort(a, lo, hi) ==
  IF lo < hi
    THEN LET p == partition([a |-> a, i |-> lo - 1, j |-> lo], At(a, hi), hi)
             i == p.i + 1
             b == Swap(p.a, i, hi)
         IN  quickSort(quickSort(b, lo, i - 1), i + 1, hi)
  ELSE a

Sort(ids) == quickSort(ids, 0, Len(ids) - 1)

\* ============================================================= the program

NumProcs == 2
Procs == 1..NumProcs

VARIABLES
  pc,          \* each goroutine's position in NewRandomWithTime
  randMutex,   \* randMutex: TRUE while locked
  randBuffer,  \* randBuffer: the shared 16-byte scratch buffer
  rander,      \* rander: an interface value, its type word and its data word
  t,           \* NewRandomWithTime's argument, per goroutine
  id,          \* NewRandomWithTime's local id, per goroutine
  ret,         \* what the call returned, per goroutine
  rd,          \* what the goroutine's own io.ReadAtLeast stored and returned
  setPc,       \* the position of the goroutine calling SetRand
  setArg,      \* the value SetRand is storing and the word still to store
  op, arg, res \* the last call of the sequential client and its result

genVars == << pc, randMutex, randBuffer, rander, t, id, ret, rd >>
setVars == << setPc, setArg >>
callVars == << op, arg, res >>
vars == << pc, randMutex, randBuffer, rander, t, id, ret, rd, setPc, setArg,
           op, arg, res >>

\* ------------------------------------------------------- random sources

cryptoReader == "rand.Reader"
customReader == "custom"
Iface(r) == [itab |-> r, data |-> r]

ErrUnexpectedEOF == "io.ErrUnexpectedEOF"
errReader == "errReader"
panicked == "panic"

RandomPayloads == { Rep(165, 16), [i \in 1..16 |-> i] }
ShortReads == { 7 }

\* What one io.ReadAtLeast(r, buf, 16) can do: the bytes it stores at the
\* front of buf and the error it returns.  rand.Reader fills the buffer.  A
\* reader given to SetRand may fill it, stop short (fewer than 16 bytes, then
\* io.EOF) or fail.  An interface value whose two words come from different
\* stores (a read racing with SetRand) is called with the wrong receiver:
\* the call can do any of these, or panic.
Filled == { [bytes |-> b, err |-> errNone] : b \in RandomPayloads }
Short == { [bytes |-> SubSeq(b, 1, n), err |-> ErrUnexpectedEOF] :
             b \in RandomPayloads, n \in ShortReads }
Failed == { [bytes |-> << >>, err |-> errReader] }
Panics == { [bytes |-> << >>, err |-> panicked] }

ReadAtLeast(r) ==
  IF r = Iface(cryptoReader) THEN Filled
  ELSE IF r.itab = r.data THEN Filled \cup Short \cup Failed
  ELSE Filled \cup Short \cup Failed \cup Panics

\* buf with bytes stored at its front.
Store(buf, bytes) ==
  [i \in 1..Len(buf) |-> IF i <= Len(bytes) THEN bytes[i] ELSE buf[i]]

GenTimes == { [sec |-> U64(1632859955), nsec |-> 0] }

NoTime == [sec |-> U64(0), nsec |-> 0]
NoRet == [id |-> Nil, err |-> "pending"]
NoRead == [bytes |-> << >>, err |-> "none"]
NoStore == [value |-> cryptoReader, word |-> "none"]

Init ==
  /\ pc = [p \in Procs |-> "idle"]
  /\ randMutex = FALSE
  /\ randBuffer = Rep(0, payloadLengthInBytes)
  /\ rander = Iface(cryptoReader)
  /\ t = [p \in Procs |-> NoTime]
  /\ id = [p \in Procs |-> Nil]
  /\ ret = [p \in Procs |-> NoRet]
  /\ rd = [p \in Procs |-> NoRead]
  /\ setPc = "idle"
  /\ setArg = NoStore
  /\ op = "none"
  /\ arg = << >>
  /\ res = << >>

\* ------------------------------------------------- NewRandomWithTime(t)

\* The call: var id KSUID is the zero value.
Call(p, tm) ==
  /\ pc[p] = "idle"
  /\ pc' = [pc EXCEPT ![p] = "lock"]
  /\ t' = [t EXCEPT ![p] = tm]
  /\ id' = [id EXCEPT ![p] = Nil]
  /\ UNCHANGED << randMutex, randBuffer, rander, ret, rd, setVars, callVars >>

\* A Lock that does not wait for the mutex to be free.
LockNoWait(p) ==
  /\ pc[p] = "lock"
  /\ randMutex' = TRUE
  /\ pc' = [pc EXCEPT ![p] = "read"]
  /\ UNCHANGED << randBuffer, rander, t, id, ret, rd, setVars, callVars >>

\* randMutex.Lock()
Lock(p) ==
  /\ pc[p] = "lock"
  /\ ~randMutex
  /\ randMutex' = TRUE
  /\ pc' = [pc EXCEPT ![p] = "read"]
  /\ UNCHANGED << randBuffer, rander, t, id, ret, rd, setVars, callVars >>

\* io.ReadAtLeast(rander, randBuffer[:], len(randBuffer)); on an error,
\* return Nil, err.
Read(p) ==
  /\ pc[p] = "read"
  /\ \E o \in ReadAtLeast(rander) :
       /\ randBuffer' = Store(randBuffer, o.bytes)
       /\ rd' = [rd EXCEPT ![p] = o]
       /\ IF o.err = errNone
            THEN /\ pc' = [pc EXCEPT ![p] = "copy"]
                 /\ ret' = ret
            ELSE /\ pc' = [pc EXCEPT ![p] = "unlock"]
                 /\ ret' = [ret EXCEPT ![p] = [id |-> Nil, err |-> o.err]]
  /\ UNCHANGED << randMutex, rander, t, id, setVars, callVars >>

\* copy(id[4:], randBuffer[:]); PutUint32(id[:4], timestamp); return id, nil
Copy(p) ==
  /\ pc[p] = "copy"
  /\ LET k == PutUint32(timeToCorrectedUTCTimestamp(t[p])) \o randBuffer
     IN  /\ id' = [id EXCEPT ![p] = k]
         /\ ret' = [ret EXCEPT ![p] = [id |-> k, err |-> errNone]]
  /\ pc' = [pc EXCEPT ![p] = "unlock"]
  /\ UNCHANGED << randMutex, randBuffer, rander, t, rd, setVars, callVars >>

\* An Unlock placed at the end of the function instead of deferred: the
\* early return on a read error leaves the mutex locked.
UnlockAtEnd(p) ==
  /\ pc[p] = "unlock"
  /\ randMutex' = (ret[p].err # errNone)
  /\ pc' = [pc EXCEPT ![p] = IF ret[p].err = panicked THEN "panicked" ELSE "done"]
  /\ UNCHANGED << randBuffer, rander, t, id, ret, rd, setVars, callVars >>

\* defer randMutex.Unlock(): runs on every way out, a panic included.
Unlock(p) ==
  /\ pc[p] = "unlock"
  /\ randMutex' = FALSE
  /\ pc' = [pc EXCEPT ![p] = IF ret[p].err = panicked THEN "panicked" ELSE "done"]
  /\ UNCHANGED << randBuffer, rander, t, id, ret, rd, setVars, callVars >>

\* The caller has the result; the goroutine may call again.
Return(p) ==
  /\ pc[p] = "done"
  /\ pc' = [pc EXCEPT ![p] = "idle"]
  /\ t' = [t EXCEPT ![p] = NoTime]
  /\ id' = [id EXCEPT ![p] = Nil]
  /\ ret' = [ret EXCEPT ![p] = NoRet]
  /\ rd' = [rd EXCEPT ![p] = NoRead]
  /\ UNCHANGED << randMutex, randBuffer, rander, setVars, callVars >>

\* ------------------------------------------------------------ SetRand(r)

\* rander = r (rand.Reader when r is nil), with no lock taken.  The store of
\* the two-word interface value is two stores, in either order.
SetRand(r) ==
  /\ setPc = "idle"
  /\ \E w \in { "itab", "data" } :
       LET v == IF r = "nil" THEN cryptoReader ELSE r
       IN  /\ rander' = [rander EXCEPT ![w] = v]
           /\ setArg' = [value |-> v, word |-> IF w = "itab" THEN "data" ELSE "itab"]
  /\ setPc' = "store"
  /\ UNCHANGED << pc, randMutex, randBuffer, t, id, ret, rd, callVars >>

SetRandStore ==
  /\ setPc = "store"
  /\ rander' = [rander EXCEPT ![setArg.word] = setArg.value]
  /\ setPc' = "idle"
  /\ setArg' = NoStore
  /\ UNCHANGED << pc, randMutex, randBuffer, t, id, ret, rd, callVars >>

\* --------------------------------------------- the concurrent program
\* Any number of goroutines call NewRandomWithTime while another calls SetRand.

ProgNext ==
  \/ \E p \in Procs, tm \in GenTimes : Call(p, tm)
  \/ \E p \in Procs : Lock(p)
  \/ \E p \in Procs : Read(p)
  \/ \E p \in Procs : Copy(p)
  \/ \E p \in Procs : Unlock(p)
  \/ \E p \in Procs : Return(p)
  \/ \E r \in { "nil", customReader } : SetRand(r)
  \/ SetRandStore

Spec == Init /\ [][ProgNext]_vars

\* sync.Mutex hands the lock to a goroutine that has waited long enough
\* (starvation mode), so a waiter that can take the lock again and again does
\* take it; a running goroutine takes its next step.
Fairness ==
  \A p \in Procs :
    /\ SF_vars(Lock(p))
    /\ WF_vars(Read(p))
    /\ WF_vars(Copy(p))
    /\ WF_vars(Unlock(p))

FairSpec == Spec /\ Fairness

\* ------------------------------------------------ the sequential client
\* One goroutine (goroutine 1) calls the package's functions one after the
\* other, on inputs drawn from the samples below, and keeps the last call's
\* name, arguments and result until it drops them.

TimestampSamples ==
  { << 0, 0, 0, 0 >>, << 0, 0, 0, 1 >>, << 0, 0, 255, 255 >>, << 13, 225, 41, 51 >>,
    << 127, 255, 255, 255 >>, << 128, 0, 0, 0 >>, << 255, 255, 255, 254 >>,
    << 255, 255, 255, 255 >> }

PayloadSamples ==
  { Rep(0, 16), Rep(0, 15) \o << 1 >>, Rep(0, 15) \o << 2 >>,
    Rep(0, 15) \o << 255 >>, Rep(0, 14) \o << 1, 0 >>,
    Rep(0, 8) \o Rep(255, 8), Rep(0, 7) \o << 1 >> \o Rep(0, 8),
    << 128 >> \o Rep(0, 15), [i \in 1..16 |-> i],
    Rep(255, 15) \o << 254 >>, Rep(255, 16) }

Ids == { ts \o pl : ts \in TimestampSamples, pl \in PayloadSamples }

ByteSamples ==
  Ids \cup { << >>, SubSeq(Max, 1, 19), Max \o << 255 >>, Rep(0, 21),
             Rep(0, 19), Rep(7, 16), Rep(7, 27) }

StringSamples ==
  { String(k) : k \in Ids }
    \cup { [maxStringEncoded EXCEPT ![27] = base62Digit(d)] : d \in { 31, 32, 61 } }
    \cup { [minStringEncoded EXCEPT ![1] = base62Digit(d)] : d \in { 36, 37, 61 } }
    \cup { [maxStringEncoded EXCEPT ![i] = c] : i \in { 1, 14, 27 }, c \in { 32, 47, 95, 126 } }
    \cup { Rep(122, 27), << >>, Rep(48, 20), Rep(48, 26), Rep(48, 28),
           SubSeq(maxStringEncoded, 1, 26), maxStringEncoded \o << 48 >>,
           Rep(126, 26), Rep(126, 28) }

TimeSamples ==
  { [sec |-> sc, nsec |-> ns] :
      sc \in { U64(epochStamp), AddW(U64(epochStamp), U64(1)), U64(1632859955),
               U64(2147483647), << 0, 1, 0, 0 >>,
               AddW(U64(epochStamp), << 0, 0, 65535, 65535 >>),
               AddW(U64(epochStamp), << 0, 1, 0, 0 >>),
               SubW(U64(epochStamp), U64(1)), U64(0), MaxUint64 },
      ns \in { 0, 999999999 } }

ClientTimes ==
  { [sec |-> AddW(U64(epochStamp), << 0, 0, 65535, 65535 >>), nsec |-> 999999999],
    [sec |-> U64(0), nsec |-> 0] }

PartSamples ==
  { Rep(0, 15) \o << 1 >>, Rep(255, 16), Rep(9, 15), Rep(9, 17), << >> }

MaxLen == 4
SortIds ==
  { Nil, Rep(0, 19) \o << 1 >>, << 0, 0, 0, 1 >> \o Rep(0, 16), Max }
Lists == UNION { [1..n -> SortIds] : n \in 0..MaxLen }

\* The client is between calls: it holds no result, goroutine 1 is not in
\* NewRandomWithTime and no SetRand is under way.
Quiet == op = "none" /\ pc[1] = "idle" /\ setPc = "idle"

CallNext ==
  /\ Quiet
  /\ \E k \in Ids :
       /\ op' = "Next"
       /\ arg' = << k >>
       /\ res' = Next(k)
  /\ UNCHANGED << genVars, setVars >>

CallPrev ==
  /\ Quiet
  /\ \E k \in Ids :
       /\ op' = "Prev"
       /\ arg' = << k >>
       /\ res' = Prev(k)
  /\ UNCHANGED << genVars, setVars >>

CallString ==
  /\ Quiet
  /\ \E b \in Ids :
       /\ op' = "String"
       /\ arg' = << b >>
       /\ res' = String(FromBytes(b).id)
  /\ UNCHANGED << genVars, setVars >>

CallParse ==
  /\ Quiet
  /\ \E s \in StringSamples :
       /\ op' = "Parse"
       /\ arg' = << s >>
       /\ res' = Parse(s)
  /\ UNCHANGED << genVars, setVars >>

CallFromBytes ==
  /\ Quiet
  /\ \E b \in ByteSamples :
       /\ op' = "FromBytes"
       /\ arg' = << b >>
       /\ res' = FromBytes(b)
  /\ UNCHANGED << genVars, setVars >>

CallFromParts ==
  /\ Quiet
  /\ \E tm \in TimeSamples, pl \in PartSamples :
       /\ op' = "FromParts"
       /\ arg' = << tm, pl >>
       /\ res' = FromParts(tm, pl)
  /\ UNCHANGED << genVars, setVars >>

CallCompare ==
  /\ Quiet
  /\ \E a \in Ids, b \in Ids :
       /\ op' = "Compare"
       /\ arg' = << a, b >>
       /\ res' = Compare(a, b)
  /\ UNCHANGED << genVars, setVars >>

CallSort ==
  /\ Quiet
  /\ \E ids \in Lists :
       /\ op' = "Sort"
       /\ arg' = << ids >>
       /\ res' = Sort(ids)
  /\ UNCHANGED << genVars, setVars >>

\* The client drops the last result.
Forget ==
  /\ op # "none"
  /\ op' = "none"
  /\ arg' = << >>
  /\ res' = << >>
  /\ UNCHANGED << genVars, setVars >>

CallNewRandomWithTime == Quiet /\ \E tm \in GenTimes \cup ClientTimes : Call(1, tm)
CallSetRand == Quiet /\ \E r \in { "nil", customReader } : SetRand(r)

CallsNext ==
  \/ CallNext
  \/ CallPrev
  \/ CallString
  \/ CallParse
  \/ CallFromBytes
  \/ CallFromParts
  \/ CallCompare
  \/ CallSort
  \/ Forget
  \/ CallNewRandomWithTime
  \/ Lock(1)
  \/ Read(1)
  \/ Copy(1)
  \/ Unlock(1)
  \/ Return(1)
  \/ CallSetRand
  \/ SetRandStore

SpecCalls == Init /\ [][CallsNext]_vars

\* ================================================================ claims

\* A goroutine is between randMutex.Lock() and the deferred Unlock().
InCS(p) == pc[p] \in { "read", "copy", "unlock" }

\* C1: generation is mutually exclusive.  At most one goroutine is between
\* acquiring and releasing randMutex, and the mutex is locked whenever one is
\* (so the read into randBuffer and the copy out of it happen under the lock);
\* the buffer still holds a goroutine's own bytes when it copies them; and the
\* payload of every identifier returned without error is exactly the 16 bytes
\* that call's own read stored in randBuffer.
C1_MutualExclusion ==
  /\ Cardinality({ p \in Procs : InCS(p) }) <= 1
  /\ \A p \in Procs :
       /\ InCS(p) => randMutex
       /\ pc[p] = "copy" => randBuffer = rd[p].bytes
       /\ (pc[p] \in { "unlock", "done" } /\ ret[p].err = errNone) =>
            /\ Len(rd[p].bytes) = payloadLengthInBytes
            /\ Payload(ret[p].id) = rd[p].bytes

\* Two calls returned different payloads, one while the other is still held
\* by its caller, and a third is waiting for the lock (with two goroutines:
\* one has returned its own bytes and the other is inside the lock).
C1_Witness ==
  \E p \in Procs, q \in Procs :
    /\ p # q
    /\ pc[p] = "done" /\ ret[p].err = errNone
    /\ pc[q] = "copy"
    /\ rd[q].bytes # rd[p].bytes
    /\ Payload(ret[p].id) = rd[p].bytes

\* C2: every store to rander happens while randMutex is held, so rander is
\* never replaced while a generating call is inside its critical section.
C2_SetRandUnderLock ==
  [][rander' # rander => ~ \E p \in Procs : InCS(p)]_vars

\* C10: the lock is always released.  Under fair scheduling every goroutine
\* waiting for randMutex gets it and its call ends: it returns (pc = "done"),
\* or, when its own read did not return but panicked, unwinds through the
\* deferred Unlock.
C10_LockReleased ==
  \A p \in Procs : (pc[p] = "lock") ~> (pc[p] \in { "done", "panicked" })

\* A goroutine is inside the lock after another call failed, while that
\* failed call's result is still held by its caller.
C10_Witness ==
  \E p \in Procs, q \in Procs :
    /\ p # q
    /\ pc[p] = "done" /\ ret[p].err # errNone
    /\ pc[q] = "copy"

\* ------------------------------------------------- claims on the functions

\* b + 1 as a big-endian number of Len(b) bytes, byte by byte, wrapping.
IncBytes(b) ==
  [i \in 1..Len(b) |->
     IF \A j \in (i + 1)..Len(b) : b[j] = 255 THEN (b[i] + 1) % 256 ELSE b[i]]

Less128(x, y) == LessW(x.hi, y.hi) \/ (x.hi = y.hi /\ LessW(x.lo, y.lo))

\* C3: x.Next() has payload(x) + 1 mod 2^128 as its payload and
\* timestamp(x) + 1 (a uint32, so 0 after 2^32 - 1) as its timestamp exactly
\* when payload(x) is all 0xFF (the timestamp unchanged otherwise); for x
\* other than Max it is the value right
\* after x in byte order: x + 1 as a 160-bit number, above x, with no sampled
\* identifier strictly between; Nil.Next() has timestamp 0 and payload 1.
C3_NextIsSuccessor ==
  op = "Next" =>
    LET x == arg[1]
    IN  /\ Payload(res) = IncBytes(Payload(x))
        /\ Timestamp(res) = IF Payload(x) = Rep(255, 16)
                              THEN AddW(Timestamp(x), U32(1))
                            ELSE Timestamp(x)
        /\ (Payload(x) = Rep(255, 16)) <=> (Timestamp(res) # Timestamp(x))
        /\ x # Max =>
             /\ res = IncBytes(x)
             /\ Compare(x, res) < 0
             /\ \A y \in Ids : ~(Compare(x, y) < 0 /\ Compare(y, res) < 0)
        /\ x = Nil => (Timestamp(res) = U32(0) /\ Payload(res) = Rep(0, 15) \o << 1 >>)

\* Next carried from an all-0xFF payload into the timestamp, across the
\* timestamp's low 16 bits.
C3_Witness ==
  /\ op = "Next"
  /\ Payload(arg[1]) = Rep(255, 16)
  /\ Timestamp(arg[1]) = << 0, 65535 >>
  /\ Timestamp(res) = << 1, 0 >>
  /\ Payload(res) = Rep(0, 16)

\* C4: Next and Prev are inverse steps: x.Next().Prev() = x for x other than
\* Max and x.Prev().Next() = x for x other than Nil, carries into and borrows
\* from the timestamp included.
C4_NextPrevInverse ==
  /\ (op = "Next" /\ arg[1] # Max) => Prev(res) = arg[1]
  /\ (op = "Prev" /\ arg[1] # Nil) => Next(res) = arg[1]

\* Prev borrowed from the timestamp: the payload was zero.
C4_Witness ==
  /\ op = "Prev"
  /\ arg[1] # Nil
  /\ Payload(arg[1]) = Rep(0, 16)
  /\ Payload(res) = Rep(255, 16)
  /\ Timestamp(res) # Timestamp(arg[1])
  /\ Next(res) = arg[1]

\* Every byte of s is one of the 62 characters.
InAlphabet(s) == \A i \in 1..Len(s) : base62Value(s[i]) >= 0

\* a is below b as base-62 numbers of the same length.
RankLess(a, b) ==
  \E i \in 1..Len(a) :
    /\ base62Value(a[i]) < base62Value(b[i])
    /\ \A j \in 1..(i - 1) : a[j] = b[j]

\* C5: the text form is a bijection with the binary form: for every 20 bytes
\* b, FromBytes(b).String() has 27 characters and Parse of it succeeds with
\* FromBytes(b); all-zero encodes to 27 zeros and all-0xFF to
\* "aWgEPTl1tmebfsQzFP4bxwgy80V"; a 27-character string above that maximum
\* is rejected by Parse with the string-value error; and a string Parse
\* accepts is the text form of what Parse returns.
C5_TextBijection ==
  /\ op = "String" =>
       /\ Len(res) = stringEncodedLength
       /\ InAlphabet(res)
       /\ Parse(res) = [id |-> FromBytes(arg[1]).id, err |-> errNone]
       /\ arg[1] = Nil => res = minStringEncoded
       /\ arg[1] = Max => res = maxStringEncoded
  /\ op = "Parse" =>
       /\ (Len(arg[1]) = stringEncodedLength /\ InAlphabet(arg[1])
             /\ RankLess(maxStringEncoded, arg[1])) =>
            res = [id |-> Nil, err |-> errStrValue]
       /\ res.err = errNone => String(res.id) = arg[1]

\* Parse rejected the string one above the maximum.
C5_Witness ==
  /\ op = "Parse"
  /\ arg[1] = [maxStringEncoded EXCEPT ![27] = base62Digit(32)]
  /\ res.err = errStrValue

\* C6: byte order is chronological order: Compare(a, b) is -1, 0 or 1; it is
\* -1 when a's timestamp is below b's whatever the payloads; with equal
\* timestamps it is the comparison of the payloads as unsigned 128-bit
\* big-endian integers; and it is 0 exactly when a = b.
C6_ByteOrderIsTimeOrder ==
  op = "Compare" =>
    LET a == arg[1]
        b == arg[2]
    IN  /\ res \in { -1, 0, 1 }
        /\ LessW(Timestamp(a), Timestamp(b)) => res = -1
        /\ LessW(Timestamp(b), Timestamp(a)) => res = 1
        /\ Timestamp(a) = Timestamp(b) =>
             res = IF Less128(uint128Payload(a), uint128Payload(b)) THEN -1
                   ELSE IF Less128(uint128Payload(b), uint128Payload(a)) THEN 1
                   ELSE 0
        /\ (res = 0) <=> (a = b)

\* The earlier identifier has the larger payload, and bytes above 0x7F.
C6_Witness ==
  /\ op = "Compare"
  /\ res = -1
  /\ LessW(Timestamp(arg[1]), Timestamp(arg[2]))
  /\ Less128(uint128Payload(arg[2]), uint128Payload(arg[1]))
  /\ arg[1][1] < 128 /\ arg[2][1] >= 128

\* C7: construction failures are typed and return Nil.  FromBytes fails
\* exactly when the input is not 20 bytes (size error); Parse fails with the
\* string-size error exactly when the input is not 27 characters, and with
\* the string-value error exactly when a 27-character input has a character
\* outside the alphabet or a value above the maximum; FromParts fails exactly
\* when the payload is not 16 bytes (payload-size error); NewRandomWithTime
\* fails exactly when its read failed or was short, with the read's error.
\* Every failure returns Nil, and a success returns no error.
C7_TypedFailures ==
  /\ op = "FromBytes" =>
       res = IF Len(arg[1]) # 20 THEN [id |-> Nil, err |-> errSize]
             ELSE [id |-> arg[1], err |-> errNone]
  /\ op = "Parse" =>
       /\ (res.err = errStrSize) <=> (Len(arg[1]) # 27)
       /\ (res.err = errStrValue) <=>
            /\ Len(arg[1]) = 27
            /\ (~InAlphabet(arg[1]) \/ RankLess(maxStringEncoded, arg[1]))
       /\ res.err \in { errNone, errStrSize, errStrValue }
       /\ res.err # errNone => res.id = Nil
  /\ op = "FromParts" =>
       /\ (res.err = errPayloadSize) <=> (Len(arg[2]) # 16)
       /\ res.err \in { errNone, errPayloadSize }
       /\ res.err # errNone => res.id = Nil
       /\ res.err = errNone => Payload(res.id) = arg[2]
  /\ \A p \in Procs :
       pc[p] = "done" =>
         /\ ret[p].err = rd[p].err
         /\ (ret[p].err # errNone) <=> (Len(rd[p].bytes) < payloadLengthInBytes)
         /\ ret[p].err # errNone => ret[p].id = Nil
         /\ ret[p].err = errNone => Payload(ret[p].id) = rd[p].bytes

\* NewRandomWithTime returned Nil and the error of a short read that had
\* already stored bytes in randBuffer.
C7_Witness ==
  /\ pc[1] = "done"
  /\ ret[1] = [id |-> Nil, err |-> ErrUnexpectedEOF]
  /\ Len(rd[1].bytes) > 0
  /\ randBuffer # Rep(0, 16)

\* The number of times x occurs in the list.
Count(ids, x) == Cardinality({ i \in 1..Len(ids) : ids[i] = x })

\* C8: Sort ends, and the list is then sorted (IsSorted, and every adjacent
\* pair compares <= 0) and a permutation of the input.
C8_SortSortsPermutation ==
  op = "Sort" =>
    /\ IsSorted(res)
    /\ \A i \in 1..(Len(res) - 1) : Compare(res[i], res[i + 1]) <= 0
    /\ Len(res) = Len(arg[1])
    /\ \A x \in SortIds : Count(res, x) = Count(arg[1], x)

\* A reverse-sorted list with a duplicate was sorted.
C8_Witness ==
  /\ op = "Sort"
  /\ Len(arg[1]) >= 3
  /\ arg[1][1] = Max /\ arg[1][2] = Max /\ arg[1][3] = Nil
  /\ res # arg[1]
  /\ res[1] = Nil

\* Unix seconds as an int64: negative, and within the 32-bit window.
Negative(w) == w[1] >= 32768
InWindow(tm) ==
  /\ ~Negative(Unix(tm))
  /\ ~LessW(Unix(tm), U64(epochStamp))
  /\ ~LessW(AddW(U64(epochStamp), << 0, 0, 65535, 65535 >>), Unix(tm))

\* A word or byte string below 2^31 as a number.
Small(w) == w[1] = 0 /\ w[2] = 0 /\ w[3] < 32768
ToInt(w) == w[3] * LimbBase + w[4]
BigEndian(b) == ((b[1] * 256 + b[2]) * 256 + b[3]) * 256 + b[4]

\* C9: the timestamp round-trips within the 32-bit window: for t with Unix
\* seconds in [1400000000, 1400000000 + 2^32 - 1] and a 16-byte payload p,
\* FromParts(t, p) succeeds with Timestamp() + 1400000000 = t.Unix(), the
\* timestamp big-endian in bytes [0,4), p in bytes [4,20), and Time() = t
\* cut to whole seconds; Unix time 1632859955 gives timestamp 232859955.
C9_TimestampRoundTrip ==
  (op = "FromParts" /\ InWindow(arg[1]) /\ Len(arg[2]) = 16) =>
    LET tm == arg[1]
        k == res.id
    IN  /\ res.err = errNone
        /\ AddW(Ext64(Timestamp(k)), U64(epochStamp)) = Unix(tm)
        /\ Small(Unix(tm)) =>
             /\ BigEndian(SubSeq(k, 1, 4)) = ToInt(Unix(tm)) - 1400000000
             /\ Timestamp(k) = U32(ToInt(Unix(tm)) - 1400000000)
        /\ SubSeq(k, 1, 4) = PutUint32(Timestamp(k))
        /\ SubSeq(k, 5, 20) = arg[2] /\ Payload(k) = arg[2]
        /\ Time(k) = [sec |-> Unix(tm), nsec |-> 0]
        /\ Unix(tm) = U64(1632859955) => Timestamp(k) = U32(232859955)

\* The last second of the window, with nanoseconds, gave timestamp 2^32 - 1.
C9_Witness ==
  /\ op = "FromParts"
  /\ InWindow(arg[1])
  /\ arg[1].nsec # 0
  /\ res.err = errNone
  /\ Timestamp(res.id) = << 65535, 65535 >>
  /\ Time(res.id).sec = arg[1].sec

====
